---- MODULE Spec2Model ----
(***************************************************************************)
(* The map-reduce PII detection graph of src/src/pii_detector.py: its     *)
(* nodes and edge functions (src/src/nodes_edges.py), the reducers of      *)
(* OverallState (src/src/states.py) and the text helpers of                *)
(* src/src/utils.py.                                                       *)
(*                                                                         *)
(* A text is a sequence of characters, each a string naming it ("a",      *)
(* "e_acute" for U+00E9, "comb_acute" for U+0301, "fi_lig" for U+FB01).    *)
(* Python indices are 0-based and slices clamp; Slice keeps both.  A      *)
(* graph superstep is a value of pc; the tasks of a superstep are the Send *)
(* payloads in sends, which complete in any order, each update merged by   *)
(* the reducers.                                                           *)
(***************************************************************************)
EXTENDS Integers, Sequences, FiniteSets, TLC

VARIABLES
    files,                       \* InputState.files
    CHUNK_SIZE,                  \* config.py: CHUNK_SIZE
    CHUNK_OVERLAP,               \* config.py: CHUNK_OVERLAP
    REPROMPTING,                 \* config.py: REPROMPTING
    MAX_PROMPTS,                 \* config.py: MAX_PROMPTS
    pc,                          \* the node of the current superstep
    sends,                       \* Send payloads of the current superstep
    done,                        \* indices of sends whose task has returned
    responses,                   \* oracle response of each returned detection task
    n_prompts,                   \* OverallState.n_prompts
    documents,                   \* OverallState.documents
    document_chunks,             \* OverallState.document_chunks
    document_ids,                \* OverallState.document_ids
    partial_pii_items,           \* OverallState.partial_pii_items
    document_partial_pii_items,  \* OverallState.document_partial_pii_items
    collected_pii_items,         \* OverallState.collected_pii_items
    masked_chunks,               \* OverallState.masked_chunks
    final_pii_items,             \* OutputState.final_pii_items
    rounds,                      \* history: fan-outs of identify_pii_items so far
    productive,                  \* history: rounds in which some task recorded PII
    route,                       \* history: the last label _should_reprompt returned
    origins,                     \* history: the payload behind each partial_pii_items entry
    spared,                      \* history: documents with a detection recorded in a round
                                 \* in which the oracle failed on another of their chunks
    llm,                         \* utils.py: the global llm of the process
    other,                       \* the state of the other run of the process, if any
    run                          \* the run whose state the variables above hold

vars == <<files, CHUNK_SIZE, CHUNK_OVERLAP, REPROMPTING, MAX_PROMPTS, pc, sends, done, responses, n_prompts,
          documents, document_chunks, document_ids, partial_pii_items,
          document_partial_pii_items, collected_pii_items, masked_chunks,
          final_pii_items, rounds, productive, route, origins, spared, llm, other, run>>

-----------------------------------------------------------------------------
(* Bounds of the model *)

\* detection fan-outs after which the model stops dispatching
MaxRounds == 3
\* the default of MAX_PROMPTS; the model runs with every value up to it
MAX_PROMPTS_DEFAULT == 2

\* the defaults of CHUNK_SIZE and CHUNK_OVERLAP and the splitter's literal
\* chunk_size and chunk_overlap (1024, 128, 1024, 128), scaled to texts of a
\* few characters
CHUNK_SIZE_DEFAULT == 5
CHUNK_OVERLAP_DEFAULT == 1
SPLITTER_CHUNK_SIZE == 5
SPLITTER_CHUNK_OVERLAP == 1

-----------------------------------------------------------------------------
(* Python helpers *)

Max(a, b) == IF a >= b THEN a ELSE b
Min(a, b) == IF a <= b THEN a ELSE b

\* s[i:j] of Python, 0-based, clamped
Slice(s, i, j) ==
    LET lo == Max(0, Min(i, Len(s)))
        hi == Max(lo, Min(j, Len(s)))
    IN  [k \in 1..(hi - lo) |-> s[lo + k]]

RECURSIVE Flatten(_)
Flatten(ss) == IF ss = <<>> THEN <<>> ELSE Head(ss) \o Flatten(Tail(ss))

Stars(n) == [k \in 1..n |-> "*"]

\* str.strip() is non-empty: some character is not whitespace
NonBlank(text) == \E k \in 1..Len(text) : text[k] \notin {" ", "\n"}

\* haystack.find(needle, start): least 0-based index >= start, or -1
Find(hay, needle, start) ==
    LET hits == {i \in start..(Len(hay) - Len(needle)) :
                    Slice(hay, i, i + Len(needle)) = needle}
    IN  IF hits = {} THEN -1 ELSE CHOOSE i \in hits : \A j \in hits : i <= j

\* needle in haystack
Contains(hay, needle) == Find(hay, needle, 0) # -1

-----------------------------------------------------------------------------
(* utils.py: normalization, existence check, masking *)

\* unicodedata.normalize('NFKD', c) for the characters of the model
NFKD(c) ==
    CASE c = "e_acute" -> <<"e", "comb_acute">>
      [] c = "E_acute" -> <<"E", "comb_acute">>
      [] c = "fi_lig"  -> <<"f", "i">>
      [] OTHER         -> <<c>>

\* unicodedata.combining(c) # 0
Combining(c) == c = "comb_acute"

RECURSIVE StripCombining(_)
\* ''.join(c for c in text if not unicodedata.combining(c))
StripCombining(text) ==
    IF text = <<>> THEN <<>>
    ELSE (IF Combining(Head(text)) THEN <<>> ELSE <<Head(text)>>)
         \o StripCombining(Tail(text))

_normalize_and_strip(text) ==
    StripCombining(Flatten([k \in 1..Len(text) |-> NFKD(text[k])]))

\* str.casefold() for the characters of the model
CasefoldChar(c) ==
    CASE c = "A" -> "a"
      [] c = "B" -> "b"
      [] c = "E" -> "e"
      [] c = "J" -> "j"
      [] c = "D" -> "d"
      [] OTHER   -> c

Casefold(text) == [k \in 1..Len(text) |-> CasefoldChar(text[k])]

pii_exist_in_text(text, pii_items) ==
    IF text = <<>> \/ pii_items = <<>> THEN FALSE
    ELSE LET t == Casefold(_normalize_and_strip(text))
         IN  \E k \in 1..Len(pii_items) :
                Contains(t, Casefold(_normalize_and_strip(pii_items[k])))

RECURSIVE MatchRanges(_, _, _, _)
\* the while loop of mask_text_with_normalization for one pii, from start
MatchRanges(text, norm_text, pii, start) ==
    LET norm_pii == _normalize_and_strip(pii)
        idx      == Find(norm_text, norm_pii, start)
        orig_sub == Slice(text, idx, idx + Len(pii))
    IN  IF idx = -1 THEN {}
        ELSE (IF _normalize_and_strip(orig_sub) = norm_pii
                 THEN {<<idx, idx + Len(pii)>>} ELSE {})
             \cup MatchRanges(text, norm_text, pii, idx + 1)

\* tuple order of list.sort()
RangeLess(a, b) == a[1] < b[1] \/ (a[1] = b[1] /\ a[2] < b[2])

RECURSIVE SortRanges(_)
SortRanges(S) ==
    IF S = {} THEN <<>>
    ELSE LET m == CHOOSE a \in S : \A b \in S \ {a} : RangeLess(a, b)
         IN  <<m>> \o SortRanges(S \ {m})

\* mutant: the sorted ranges are used as they are, without merging
MergeRanges_unmerged(merged, rest) == merged \o rest

RECURSIVE MergeRanges(_, _)
\* the merge loop: merged so far, ranges still to visit
MergeRanges(merged, rest) ==
    IF rest = <<>> THEN merged
    ELSE LET r == Head(rest)
             n == Len(merged)
         IN  IF n = 0 \/ r[1] > merged[n][2]
                THEN MergeRanges(Append(merged, r), Tail(rest))
                ELSE MergeRanges([merged EXCEPT ![n] = <<merged[n][1], Max(merged[n][2], r[2])>>],
                                 Tail(rest))

RECURSIVE BuildMasked(_, _, _)
\* the build loop: text[last:start] + '*' * (end - start) for each merged range
BuildMasked(text, merged, last) ==
    IF merged = <<>> THEN Slice(text, last, Len(text))
    ELSE LET r == Head(merged)
         IN  Slice(text, last, r[1]) \o Stars(r[2] - r[1])
             \o BuildMasked(text, Tail(merged), r[2])

mask_text_with_normalization(text, pii_items) ==
    IF pii_items = <<>> THEN text
    ELSE LET norm_text   == _normalize_and_strip(text)
             mask_ranges == UNION {MatchRanges(text, norm_text, pii_items[k], 0) :
                                      k \in 1..Len(pii_items)}
             merged      == MergeRanges(<<>>, SortRanges(mask_ranges))
         IN  BuildMasked(text, merged, 0)

-----------------------------------------------------------------------------
(* oifile.py: the document object and its content normalizer.  The        *)
(* characters of the model include no markup, so the steps on comments,    *)
(* tags and entities (oifile.py:43-53) leave every text of the model as    *)
(* it is; the whitespace and punctuation steps are modelled.               *)

RECURSIVE CollapseSpaces(_)
\* re.sub(r' +', ' ', text)
CollapseSpaces(text) ==
    IF Len(text) < 2 THEN text
    ELSE IF text[1] = " " /\ text[2] = " " THEN CollapseSpaces(Tail(text))
    ELSE <<text[1]>> \o CollapseSpaces(Tail(text))

RECURSIVE LeadingNewlines(_)
LeadingNewlines(text) ==
    IF text # <<>> /\ Head(text) = "\n" THEN 1 + LeadingNewlines(Tail(text)) ELSE 0

RECURSIVE CollapseNewlines(_)
\* re.sub(r'\n{3,}', '\n\n', text)
CollapseNewlines(text) ==
    IF text = <<>> THEN <<>>
    ELSE LET n == LeadingNewlines(text)
         IN  IF n >= 3 THEN <<"\n", "\n">> \o CollapseNewlines(Slice(text, n, Len(text)))
             ELSE IF n >= 1 THEN Slice(text, 0, n) \o CollapseNewlines(Slice(text, n, Len(text)))
             ELSE <<Head(text)>> \o CollapseNewlines(Tail(text))

RECURSIVE DropSpaceBeforePunct(_)
\* re.sub(r' ([.,:])', r'\1', text)
DropSpaceBeforePunct(text) ==
    IF Len(text) < 2 THEN text
    ELSE IF text[1] = " " /\ text[2] \in {".", ",", ":"}
         THEN <<text[2]>> \o DropSpaceBeforePunct(Slice(text, 2, Len(text)))
    ELSE <<text[1]>> \o DropSpaceBeforePunct(Tail(text))

RECURSIVE Rstrip(_)
Rstrip(line) ==
    IF line # <<>> /\ line[Len(line)] \in {" ", "\n"}
    THEN Rstrip(Slice(line, 0, Len(line) - 1)) ELSE line

RECURSIVE SplitLines(_, _)
\* text.splitlines(), cur being the line read so far
SplitLines(text, cur) ==
    IF text = <<>> THEN (IF cur = <<>> THEN <<>> ELSE <<cur>>)
    ELSE IF Head(text) = "\n" THEN <<cur>> \o SplitLines(Tail(text), <<>>)
    ELSE SplitLines(Tail(text), Append(cur, Head(text)))

RECURSIVE JoinLines(_)
JoinLines(lines) ==
    IF lines = <<>> THEN <<>>
    ELSE IF Len(lines) = 1 THEN lines[1]
    ELSE lines[1] \o <<"\n">> \o JoinLines(Tail(lines))

\* OIFile._build_content; the result of the final text.strip() is discarded
_build_content(text_content) ==
    IF text_content = <<>> THEN <<>>
    ELSE LET t1    == DropSpaceBeforePunct(CollapseNewlines(CollapseSpaces(text_content)))
             lines == SplitLines(t1, <<>>)
         IN  JoinLines([k \in 1..Len(lines) |-> Rstrip(lines[k])])

\* OIFile.__init__ on the fields the graph reads
OIFile(id, content) == [id |-> id, content |-> _build_content(content)]

-----------------------------------------------------------------------------
(* utils.py: chunk_document *)

RECURSIVE PopOverlap(_, _)
\* the while loop of the splitter's merge: drop leading splits until the
\* window holds at most chunk_overlap characters and the next split fits
PopOverlap(current, size_overlap) ==
    LET total == Len(current)
    IN  IF total > size_overlap[2] \/ (total + 1 > size_overlap[1] /\ total > 0)
        THEN PopOverlap(Tail(current), size_overlap)
        ELSE current

RECURSIVE MergeSplits(_, _, _)
\* RecursiveCharacterTextSplitter on a text holding none of its separators:
\* it splits on "" into characters and merges them into windows
MergeSplits(text, current, size_overlap) ==
    IF text = <<>> THEN (IF NonBlank(current) THEN <<current>> ELSE <<>>)
    ELSE IF Len(current) + 1 > size_overlap[1]
         THEN (IF NonBlank(current) THEN <<current>> ELSE <<>>)
              \o MergeSplits(Tail(text),
                             Append(PopOverlap(current, size_overlap), Head(text)),
                             size_overlap)
    ELSE MergeSplits(Tail(text), Append(current, Head(text)), size_overlap)

\* create_splitter_and_split_text: the literals of utils.py:76-77, not the arguments
create_splitter_and_split_text(text) ==
    MergeSplits(text, <<>>, <<SPLITTER_CHUNK_SIZE, SPLITTER_CHUNK_OVERLAP>>)

\* mutant: an overlap equal to the chunk size passes the check
InvalidChunkParameters_overlap_equal(chunk_size, chunk_overlap) ==
    chunk_size <= 0 \/ chunk_overlap < 0 \/ chunk_overlap > chunk_size

\* the parameter check of chunk_document raises ValueError
InvalidChunkParameters(chunk_size, chunk_overlap) ==
    chunk_size <= 0 \/ chunk_overlap < 0 \/ chunk_overlap >= chunk_size

RECURSIVE StripChunks(_)
\* [re.sub(r'\n+', ' ', doc.strip()) for doc in split_docs if doc.strip()] on
\* chunks that hold no whitespace at their ends and no newline
StripChunks(split_docs) ==
    IF split_docs = <<>> THEN <<>>
    ELSE (IF NonBlank(Head(split_docs)) THEN <<Head(split_docs)>> ELSE <<>>)
         \o StripChunks(Tail(split_docs))

\* chunk_document after its parameter check; tuple(text) of a str is the
\* tuple of its characters
chunk_document(document, chunk_size) ==
    LET text == document.content
    IN  IF Len(text) < chunk_size
        THEN [k \in 1..Len(text) |-> <<text[k]>>]
        ELSE StripChunks(create_splitter_and_split_text(text))

-----------------------------------------------------------------------------
(* The run's input and the oracle *)

\* file descriptors of the input; "d3" has no content
Files ==
    << [id |-> "d1", content |-> <<"a", " ", "A", "b">>],
       [id |-> "d2", content |-> <<"a", "b", "A", "b", "b">>],
       [id |-> "d3", content |-> <<>>] >>

\* dict iteration order, fixed to the order of the input
DocSeq == [k \in 1..Len(Files) |-> Files[k].id]
DocIds == {DocSeq[k] : k \in 1..Len(DocSeq)}

RecA == [text |-> <<"a">>, category |-> <<"n">>]
RecB == [text |-> <<"b">>, category |-> <<"n">>]

\* response.content of the detection call, or the call raising.  valid says
\* whether json.loads accepts the text between the fences (the whole text
\* when there is no fence) and json is the value it then gives.
Fenced(valid, json) == [raises |-> FALSE, fenced |-> TRUE, valid |-> valid, json |-> json]
Plain(valid, json)  == [raises |-> FALSE, fenced |-> FALSE, valid |-> valid, json |-> json]
CallFailure         == [raises |-> TRUE, fenced |-> FALSE, valid |-> FALSE, json |-> <<>>]

\* fenced text that json.loads rejects; the bare text "not json"; "[]" in fences
ParseFailure == Fenced(FALSE, <<>>)
NotJson      == Plain(FALSE, <<>>)
NoDetection  == Fenced(TRUE, <<>>)

Records == {RecA, RecB}

\* the 'text' of an element that has no 'text' entry: item['text'] raises
\* KeyError for it
Absent == <<"KeyError">>
\* a JSON array whose one element is an object without 'text'
RecNoText == [text |-> Absent, category |-> <<"n">>]
MalformedResponses == {Fenced(TRUE, <<RecNoText>>)}

\* the records whose text a chunk shows, in any case
Shown(content) == {r \in Records : Contains(Casefold(content), Casefold(r.text))}

\* what the oracle may answer for a chunk: a record the chunk shows, in fences
\* or bare; no record; text that is not JSON; or the call fails
OracleResponses(content) ==
    {Fenced(TRUE, <<r>>) : r \in Shown(content)}
    \cup {Plain(TRUE, <<r>>) : r \in Shown(content)}
    \cup {NoDetection, ParseFailure, NotJson, CallFailure}

-----------------------------------------------------------------------------
(* states.py: the reducers of OverallState *)

EmptyDict == [k \in {} |-> <<>>]

\* operator.or_ on dicts
DictOr(a, b) ==
    [k \in (DOMAIN a) \cup (DOMAIN b) |-> IF k \in DOMAIN b THEN b[k] ELSE a[k]]

\* dict.get(key, [])
Get(d, k) == IF k \in DOMAIN d THEN d[k] ELSE <<>>

\* mutant: the counter's updates are added up, as the lists' are
ReduceNPrompts_add(a, b) == a + b

\* lambda a, b: max(a, b)
ReduceNPrompts(a, b) == Max(a, b)

\* operator.add on lists
ReduceAdd(a, b) == a \o b

-----------------------------------------------------------------------------
(* nodes_edges.py: edge functions and node bodies *)

\* _map_input: one load_document payload per input file
_map_input(fs) == [k \in 1..Len(fs) |-> [file |-> fs[k]]]

\* a descriptor without its 'meta' entry is written with a field no_meta;
\* file_info['meta']['content_type'] raises KeyError for it
LoadingRaises(file) == "no_meta" \in DOMAIN file

\* mutant: the content of the descriptor is not tested
_load_document_any_content(p) ==
    IF LoadingRaises(p.file) THEN <<>> ELSE <<OIFile(p.file.id, p.file.content)>>

\* _load_document: the update's 'documents'; the exception of a descriptor
\* is caught and leaves the update empty
_load_document(p) ==
    IF p.file.content # <<>>
    THEN (IF LoadingRaises(p.file) THEN <<>> ELSE <<OIFile(p.file.id, p.file.content)>>)
    ELSE <<>>

\* _map_documents_to_split: one split_document payload per loaded document
_map_documents_to_split(docs) == [k \in 1..Len(docs) |-> [document |-> docs[k]]]

\* _split_document: the update's 'document_chunks'
_split_document(p) ==
    LET chunks == chunk_document(p.document, CHUNK_SIZE)
    IN  IF chunks # <<>> THEN [k \in {p.document.id} |-> chunks] ELSE EmptyDict

RECURSIVE ChunkSends_blank_too(_, _, _)
\* mutant: the test content.strip() is left out
ChunkSends_blank_too(file_id, chunks, n) ==
    IF chunks = <<>> THEN <<>>
    ELSE <<[n_prompts |-> n, document_id |-> file_id, content |-> Head(chunks)]>>
         \o ChunkSends_blank_too(file_id, Tail(chunks), n)

RECURSIVE ChunkSends(_, _, _)
ChunkSends(file_id, chunks, n) ==
    IF chunks = <<>> THEN <<>>
    ELSE (IF NonBlank(Head(chunks))
             THEN <<[n_prompts |-> n, document_id |-> file_id, content |-> Head(chunks)]>>
             ELSE <<>>)
         \o ChunkSends(file_id, Tail(chunks), n)

RECURSIVE MapChunksFrom(_, _, _)
MapChunksFrom(ids, files_chunks, n) ==
    IF ids = <<>> THEN <<>>
    ELSE ChunkSends(Head(ids), Get(files_chunks, Head(ids)), n)
         \o MapChunksFrom(Tail(ids), files_chunks, n)

\* _map_chunks: one identify_pii_items payload per non-blank chunk
_map_chunks(files_chunks, n) == MapChunksFrom(DocSeq, files_chunks, n)

\* mutant: document_ids filled for every parsed response, outside the test
\* for a non-empty list
_identify_pii_items_ids_always(p, response) ==
    LET none == [n_prompts |-> 0, document_ids |-> <<>>, partial_pii_items |-> <<>>]
    IN  IF response.raises \/ ~response.fenced \/ ~response.valid THEN none
        ELSE IF response.json # <<>>
             THEN [n_prompts         |-> p.n_prompts + 1,
                   document_ids      |-> <<p.document_id>>,
                   partial_pii_items |-> <<response.json>>]
        ELSE [none EXCEPT !.document_ids = <<p.document_id>>]

\* _identify_pii_items: the update, its absent keys given as the reducers'
\* neutral values.  Both except clauses leave the update empty.
_identify_pii_items(p, response) ==
    LET none == [n_prompts |-> 0, document_ids |-> <<>>, partial_pii_items |-> <<>>]
    IN  IF response.raises THEN none
        ELSE IF ~response.fenced THEN none
        ELSE IF ~response.valid THEN none
        ELSE IF response.json # <<>>
             THEN [n_prompts         |-> p.n_prompts + 1,
                   document_ids      |-> <<p.document_id>>,
                   partial_pii_items |-> <<response.json>>]
        ELSE none

RECURSIVE GroupFrom(_, _, _)
\* the zip loop of _group_pii_by_file
GroupFrom(ids, items, results) ==
    IF ids = <<>> \/ items = <<>> THEN results
    ELSE GroupFrom(Tail(ids), Tail(items),
                   DictOr(results,
                          [k \in {Head(ids)} |-> Append(Get(results, Head(ids)), Head(items))]))

_group_pii_by_file(ids, items) == GroupFrom(ids, items, EmptyDict)

\* mutant: the comparison with MAX_PROMPTS off by one
_should_reprompt_off_by_one(reprompting, n, max_prompts) ==
    IF reprompting /\ n <= max_prompts THEN "mask_documents" ELSE "postprocess_pii_items"

\* mutant: REPROMPTING not consulted
_should_reprompt_ignoring_flag(reprompting, n, max_prompts) ==
    IF n < max_prompts THEN "mask_documents" ELSE "postprocess_pii_items"

\* _should_reprompt
_should_reprompt(reprompting, n, max_prompts) ==
    IF reprompting /\ n < max_prompts THEN "mask_documents" ELSE "postprocess_pii_items"

\* the path map of the conditional edge after group_pii_by_file
PathMap == {"mask_documents", "combine_file_pii_items"}

\* where the graph goes on a label of _should_reprompt: a label of the path
\* map is followed; for a label outside it the graph library either raises
\* or runs the node of that name
RouteOutcomes(label) == IF label \in PathMap THEN {label} ELSE {label, "error"}

\* item['text'] raises for an element of json.loads(pii_items[0])
PiiListRaises(pii_items) == \E k \in 1..Len(pii_items[1]) : pii_items[1][k].text = Absent

\* [item['text'] for item in json.loads(pii_items[0])]
PiiList(pii_items) == [k \in 1..Len(pii_items[1]) |-> pii_items[1][k].text]

RECURSIVE NeedMasking(_, _)
\* the chunks of one file for which pii_exist_in_text holds, in order
NeedMasking(chunks, pii_list) ==
    IF chunks = <<>> THEN <<>>
    ELSE (IF pii_exist_in_text(Head(chunks), pii_list) THEN <<Head(chunks)>> ELSE <<>>)
         \o NeedMasking(Tail(chunks), pii_list)

\* _mask_documents: the update's 'document_chunks'
_mask_documents(files_chunks, files_pii_items) ==
    IF files_chunks = EmptyDict \/ files_pii_items = EmptyDict THEN EmptyDict
    ELSE LET file_ids == (DOMAIN files_chunks) \cup (DOMAIN files_pii_items)
             selected(f) == IF Get(files_chunks, f) # <<>> /\ Get(files_pii_items, f) # <<>>
                            THEN NeedMasking(files_chunks[f], PiiList(files_pii_items[f]))
                            ELSE <<>>
         IN  [f \in {g \in file_ids : selected(g) # <<>>} |-> selected(f)]

\* _mask_documents raises: the comprehension of line 272 is evaluated for a
\* file with chunks and PII items, outside any try
_mask_documents_raises(files_chunks, files_pii_items) ==
    /\ files_chunks # EmptyDict
    /\ files_pii_items # EmptyDict
    /\ \E f \in (DOMAIN files_chunks) \cup (DOMAIN files_pii_items) :
          /\ Get(files_chunks, f) # <<>>
          /\ Get(files_pii_items, f) # <<>>
          /\ PiiListRaises(files_pii_items[f])

RECURSIVE MaskSendsFrom(_, _, _)
MaskSendsFrom(ids, files_chunks, files_pii_items) ==
    IF ids = <<>> THEN <<>>
    ELSE LET f      == Head(ids)
             chunks == Get(files_chunks, f)
         IN  [k \in 1..Len(chunks) |->
                 [document_id   |-> f,
                  chunk_index   |-> k - 1,
                  chunk_content |-> chunks[k],
                  pii_items     |-> Get(files_pii_items, f)]]
             \o MaskSendsFrom(Tail(ids), files_chunks, files_pii_items)

\* _map_masked_chunks: one mask_text payload per chunk of document_chunks
_map_masked_chunks(files_chunks, files_pii_items) ==
    MaskSendsFrom(DocSeq, files_chunks, files_pii_items)

\* _route_masked_documents, the edge function pii_detector.py names after
\* mask_documents with the targets mask_text and collect_masked_chunks: the
\* payloads of _map_masked_chunks, and collect_masked_chunks when there are none
_route_masked_documents(files_chunks, files_pii_items) ==
    _map_masked_chunks(files_chunks, files_pii_items)

\* _mask_text: the update's 'masked_chunks'
_mask_text(p) ==
    IF p.chunk_content # <<>> /\ p.pii_items # <<>>
    THEN << [file_id     |-> p.document_id,
             chunk_index |-> p.chunk_index,
             content     |-> mask_text_with_normalization(p.chunk_content,
                                                          PiiList(p.pii_items))] >>
    ELSE <<>>

RECURSIVE ApplyMasked(_, _, _)
\* the inner loop of _collect_masked_chunks for one file: chunks[index] = content
\* for each entry of the file, in order; IndexError gives ok = FALSE
ApplyMasked(file_id, chunks, entries) ==
    IF entries = <<>> THEN [ok |-> TRUE, chunks |-> chunks]
    ELSE LET e == Head(entries)
         IN  IF e.file_id # file_id THEN ApplyMasked(file_id, chunks, Tail(entries))
             ELSE IF e.chunk_index >= Len(chunks) THEN [ok |-> FALSE, chunks |-> chunks]
             ELSE ApplyMasked(file_id,
                              [chunks EXCEPT ![e.chunk_index + 1] = e.content],
                              Tail(entries))

\* _collect_masked_chunks: the new document_chunks, or the IndexError
_collect_masked_chunks(files_chunks, entries) ==
    IF files_chunks = EmptyDict \/ entries = <<>>
    THEN [ok |-> TRUE, document_chunks |-> files_chunks]
    ELSE LET applied == [f \in DOMAIN files_chunks |-> ApplyMasked(f, files_chunks[f], entries)]
         IN  [ok              |-> \A f \in DOMAIN files_chunks : applied[f].ok,
              document_chunks |-> [f \in DOMAIN files_chunks |-> applied[f].chunks]]

RECURSIVE Unique_keeping_last(_, _, _)
\* mutant: a later record with a seen key replaces the records kept for it
Unique_keeping_last(parsed_items, unique_items, unique_pii_items) ==
    IF parsed_items = <<>> THEN unique_pii_items
    ELSE LET item     == Head(parsed_items)
             item_key == item.text \o <<"_">> \o item.category
             others   == SelectSeq(unique_pii_items,
                                   LAMBDA r : r.text \o <<"_">> \o r.category # item_key)
         IN  IF ~Contains(item.text, Stars(4))
             THEN Unique_keeping_last(Tail(parsed_items), unique_items \cup {item_key},
                                      Append(others, item))
             ELSE Unique_keeping_last(Tail(parsed_items), unique_items, unique_pii_items)

RECURSIVE Unique_forgetting_key(_, _, _)
\* mutant: a duplicate takes its key out of the set of seen keys
Unique_forgetting_key(parsed_items, unique_items, unique_pii_items) ==
    IF parsed_items = <<>> THEN unique_pii_items
    ELSE LET item     == Head(parsed_items)
             item_key == item.text \o <<"_">> \o item.category
         IN  IF item_key \notin unique_items /\ ~Contains(item.text, Stars(4))
             THEN Unique_forgetting_key(Tail(parsed_items), unique_items \cup {item_key},
                                        Append(unique_pii_items, item))
             ELSE Unique_forgetting_key(Tail(parsed_items), unique_items \ {item_key},
                                        unique_pii_items)

RECURSIVE Unique(_, _, _)
\* the dedup loop of _postprocess_pii_items: keys seen so far, items kept so far
Unique(parsed_items, unique_items, unique_pii_items) ==
    IF parsed_items = <<>> THEN unique_pii_items
    ELSE LET item     == Head(parsed_items)
             item_key == item.text \o <<"_">> \o item.category
         IN  IF item_key \notin unique_items /\ ~Contains(item.text, Stars(4))
             THEN Unique(Tail(parsed_items), unique_items \cup {item_key},
                         Append(unique_pii_items, item))
             ELSE Unique(Tail(parsed_items), unique_items, unique_pii_items)

RECURSIVE PostprocessFrom(_, _)
PostprocessFrom(ids, collected_items) ==
    IF ids = <<>> THEN <<>>
    ELSE (IF Head(ids) \in DOMAIN collected_items
             THEN << [id  |-> Head(ids),
                      pii |-> Unique(collected_items[Head(ids)], {}, <<>>)] >>
             ELSE <<>>)
         \o PostprocessFrom(Tail(ids), collected_items)

\* _postprocess_pii_items: final_pii_items
_postprocess_pii_items(collected_items) == PostprocessFrom(DocSeq, collected_items)

-----------------------------------------------------------------------------
(* pii_detector.py: the graph.  The tasks of a superstep return in any    *)
(* order and the reducers merge each update as it returns; the nodes of    *)
(* the next superstep start when all have returned.  The edge function of  *)
(* a node is part of the node's action.  combine_file_pii_items is a node  *)
(* of the graph and a label of PathMap that no edge function returns       *)
(* (_map_file_partial_pii is wired to no edge), so it has no action.       *)

Indices == 1..Len(sends)

\* mutant: the superstep ends with the first task that returns
LastOnFirstReturn(i) == i \in Indices

\* task i is the last of the superstep to return
Last(i) == done \cup {i} = Indices

\* the state of a run that does not exist
NoRun == EmptyDict

\* the process holds one run and has built no client yet
SingleRun ==
    /\ llm = "none"
    /\ other = NoRun
    /\ run = 1

Init ==
    /\ REPROMPTING \in BOOLEAN
    /\ MAX_PROMPTS \in 1..MAX_PROMPTS_DEFAULT
    /\ files = Files
    /\ CHUNK_SIZE = CHUNK_SIZE_DEFAULT
    /\ CHUNK_OVERLAP = CHUNK_OVERLAP_DEFAULT
    /\ sends = _map_input(files)
    /\ pc = IF sends = <<>> THEN "halt" ELSE "load_document"
    /\ done = {}
    /\ responses = EmptyDict
    /\ n_prompts = 0
    /\ documents = <<>>
    /\ document_chunks = EmptyDict
    /\ document_ids = <<>>
    /\ partial_pii_items = <<>>
    /\ document_partial_pii_items = EmptyDict
    /\ collected_pii_items = EmptyDict
    /\ masked_chunks = <<>>
    /\ final_pii_items = <<>>
    /\ rounds = 0
    /\ productive = 0
    /\ route = "none"
    /\ origins = <<>>
    /\ spared = {}
    /\ SingleRun

\* the superstep after the current one: its node and its payloads
Advance(node, payloads) ==
    /\ pc' = IF payloads = <<>> THEN "halt" ELSE node
    /\ sends' = payloads
    /\ done' = {}
    /\ responses' = EmptyDict

\* a task returned and others of the superstep are still running
Stay(i) ==
    /\ done' = done \cup {i}
    /\ UNCHANGED <<pc, sends>>

LoadDocument(i) ==
    /\ pc = "load_document"
    /\ i \in Indices \ done
    /\ documents' = ReduceAdd(documents, _load_document(sends[i]))
    /\ IF Last(i)
       THEN Advance("split_document", _map_documents_to_split(documents'))
       ELSE Stay(i) /\ UNCHANGED responses
    /\ UNCHANGED <<llm, other, run, files, CHUNK_SIZE, CHUNK_OVERLAP, REPROMPTING, MAX_PROMPTS, n_prompts, document_chunks, document_ids,
                   partial_pii_items, document_partial_pii_items, collected_pii_items,
                   masked_chunks, final_pii_items, rounds, productive, route, origins, spared>>

SplitDocument(i) ==
    /\ pc = "split_document"
    /\ i \in Indices \ done
    /\ IF InvalidChunkParameters(CHUNK_SIZE, CHUNK_OVERLAP)
       THEN /\ pc' = "error"
            /\ UNCHANGED <<sends, done, responses, document_chunks, rounds>>
       ELSE /\ document_chunks' = DictOr(document_chunks, _split_document(sends[i]))
            /\ IF Last(i)
               THEN /\ Advance("identify_pii_items", _map_chunks(document_chunks', n_prompts))
                    /\ rounds' = IF _map_chunks(document_chunks', n_prompts) = <<>>
                                 THEN rounds ELSE rounds + 1
               ELSE Stay(i) /\ UNCHANGED <<responses, rounds>>
    /\ UNCHANGED <<llm, other, run, files, CHUNK_SIZE, CHUNK_OVERLAP, REPROMPTING, MAX_PROMPTS, n_prompts, documents, document_ids,
                   partial_pii_items, document_partial_pii_items, collected_pii_items,
                   masked_chunks, final_pii_items, productive, route, origins, spared>>

\* task i returns with one of the responses
IdentifyWith(i, choices) ==
    /\ pc = "identify_pii_items"
    /\ i \in Indices \ done
    /\ \E response \in choices :
          LET update == _identify_pii_items(sends[i], response)
          IN  /\ n_prompts' = ReduceNPrompts(n_prompts, update.n_prompts)
              /\ document_ids' = ReduceAdd(document_ids, update.document_ids)
              /\ partial_pii_items' = ReduceAdd(partial_pii_items, update.partial_pii_items)
              /\ origins' = origins \o [k \in 1..Len(update.partial_pii_items) |-> sends[i]]
              /\ responses' = DictOr(responses, [k \in {i} |-> response])
    /\ done' = done \cup {i}
    /\ pc' = IF Last(i) THEN "group_pii_by_file" ELSE pc
    /\ llm' = "client"
    /\ UNCHANGED <<other, run, files, CHUNK_SIZE, CHUNK_OVERLAP, REPROMPTING, MAX_PROMPTS, sends, documents, document_chunks,
                   document_partial_pii_items, collected_pii_items, masked_chunks,
                   final_pii_items, rounds, productive, route, spared>>

IdentifyPiiItems(i) == IdentifyWith(i, OracleResponses(sends[i].content))

\* the oracle answers task i with a JSON array of malformed records
IdentifyPiiItemsMalformed(i) == IdentifyWith(i, MalformedResponses)

\* task i of the round recorded a partial result
Recorded(i) ==
    /\ i \in DOMAIN responses
    /\ _identify_pii_items(sends[i], responses[i]).partial_pii_items # <<>>

\* task i of the round got text that is not JSON, or its call failed
Failed(i) ==
    /\ i \in DOMAIN responses
    /\ responses[i] \in {ParseFailure, NotJson, CallFailure}

SparedNow ==
    {sends[i].document_id : i \in {j \in Indices : Recorded(j) /\
          \E k \in Indices : k # j /\ Failed(k) /\ sends[k].document_id = sends[j].document_id}}

GroupPiiByFile ==
    /\ pc = "group_pii_by_file"
    /\ document_partial_pii_items' = _group_pii_by_file(document_ids, partial_pii_items)
    /\ route' = _should_reprompt(REPROMPTING, n_prompts, MAX_PROMPTS)
    /\ pc' \in RouteOutcomes(route')
    /\ productive' = IF \E i \in Indices : Recorded(i) THEN productive + 1 ELSE productive
    /\ spared' = spared \cup SparedNow
    /\ sends' = <<>>
    /\ done' = {}
    /\ responses' = EmptyDict
    /\ UNCHANGED <<llm, other, run, files, CHUNK_SIZE, CHUNK_OVERLAP, REPROMPTING, MAX_PROMPTS, n_prompts, documents, document_chunks,
                   document_ids, partial_pii_items, collected_pii_items, masked_chunks,
                   final_pii_items, rounds, origins>>

MaskDocuments ==
    /\ pc = "mask_documents"
    /\ IF _mask_documents_raises(document_chunks, document_partial_pii_items)
       THEN /\ pc' = "error"
            /\ UNCHANGED <<document_chunks, sends, done>>
       ELSE /\ document_chunks' =
                  DictOr(document_chunks,
                         _mask_documents(document_chunks, document_partial_pii_items))
            /\ LET payloads == _route_masked_documents(document_chunks',
                                                        document_partial_pii_items)
               IN  /\ pc' = IF payloads = <<>> THEN "collect_masked_chunks" ELSE "mask_text"
                   /\ sends' = payloads
            /\ done' = {}
    /\ UNCHANGED <<llm, other, run, files, CHUNK_SIZE, CHUNK_OVERLAP, REPROMPTING, MAX_PROMPTS, responses, n_prompts, documents, document_ids,
                   partial_pii_items, document_partial_pii_items, collected_pii_items,
                   masked_chunks, final_pii_items, rounds, productive, route, origins, spared>>

MaskText(i) ==
    /\ pc = "mask_text"
    /\ i \in Indices \ done
    /\ masked_chunks' = ReduceAdd(masked_chunks, _mask_text(sends[i]))
    /\ IF Last(i)
       THEN pc' = "collect_masked_chunks" /\ sends' = <<>> /\ done' = {}
       ELSE Stay(i)
    /\ UNCHANGED <<llm, other, run, files, CHUNK_SIZE, CHUNK_OVERLAP, REPROMPTING, MAX_PROMPTS, responses, n_prompts, documents,
                   document_chunks, document_ids, partial_pii_items,
                   document_partial_pii_items, collected_pii_items, final_pii_items,
                   rounds, productive, route, origins, spared>>

CollectMaskedChunks ==
    /\ pc = "collect_masked_chunks"
    /\ rounds < MaxRounds
    /\ LET collected == _collect_masked_chunks(document_chunks, masked_chunks)
       IN  IF ~collected.ok
           THEN /\ pc' = "error"
                /\ UNCHANGED <<sends, done, responses, document_chunks, rounds>>
           ELSE /\ document_chunks' = DictOr(document_chunks, collected.document_chunks)
                /\ Advance("identify_pii_items", _map_chunks(document_chunks', n_prompts))
                /\ rounds' = IF _map_chunks(document_chunks', n_prompts) = <<>>
                             THEN rounds ELSE rounds + 1
    /\ UNCHANGED <<llm, other, run, files, CHUNK_SIZE, CHUNK_OVERLAP, REPROMPTING, MAX_PROMPTS, n_prompts, documents, document_ids,
                   partial_pii_items, document_partial_pii_items, collected_pii_items,
                   masked_chunks, final_pii_items, productive, route, origins, spared>>

PostprocessPiiItems ==
    /\ pc = "postprocess_pii_items"
    /\ final_pii_items' = _postprocess_pii_items(collected_pii_items)
    /\ pc' = "END"
    /\ UNCHANGED <<llm, other, run, files, CHUNK_SIZE, CHUNK_OVERLAP, REPROMPTING, MAX_PROMPTS, sends, done, responses, n_prompts, documents,
                   document_chunks, document_ids, partial_pii_items,
                   document_partial_pii_items, collected_pii_items, masked_chunks,
                   rounds, productive, route, origins, spared>>

Next ==
    \/ \E i \in Indices : LoadDocument(i)
    \/ \E i \in Indices : SplitDocument(i)
    \/ \E i \in Indices : IdentifyPiiItems(i)
    \/ GroupPiiByFile
    \/ MaskDocuments
    \/ \E i \in Indices : MaskText(i)
    \/ CollectMaskedChunks
    \/ PostprocessPiiItems

Spec == Init /\ [][Next]_vars

-----------------------------------------------------------------------------
(* Properties *)

\* the run is over: the output is produced, the graph has no task left, or an
\* exception ended it
Terminal == pc \in {"END", "halt", "error"}

\* the ids of the loaded documents
Loaded == {documents[k].id : k \in 1..Len(documents)}

\* the entries of final_pii_items for document d
FinalOf(d) == {k \in 1..Len(final_pii_items) : final_pii_items[k].id = d}

\* how often record r occurs in the list pii
Occurrences(pii, r) == Cardinality({k \in 1..Len(pii) : pii[k] = r})

RECURSIVE FromDocument(_, _, _)
\* the entries of items whose payload (same position of from) is of document d
FromDocument(d, items, from) ==
    IF items = <<>> \/ from = <<>> THEN <<>>
    ELSE (IF Head(from).document_id = d THEN <<Head(items)>> ELSE <<>>)
         \o FromDocument(d, Tail(items), Tail(from))

IsPrefix(a, b) == Len(a) <= Len(b) /\ \A k \in 1..Len(a) : a[k] = b[k]

\* C1: whatever the oracle answers, a run makes at most MAX_PROMPTS detection
\* rounds (fan-outs of identify_pii_items); the Decide -> Mask -> Detect loop
\* does not go on beyond them.
C1_AtMostMaxPromptsRounds == rounds <= MAX_PROMPTS

\* C2: with REPROMPTING on and MAX_PROMPTS = 2, as long as every round so far
\* recorded PII the counter n_prompts equals the number of rounds, the first
\* decision is to mask, the second is to finalize, and the run does not end
\* before its second round.
C2_TwoRoundsWhenPiiEveryRound ==
    (REPROMPTING /\ MAX_PROMPTS = 2 /\ rounds >= 1 /\ productive = rounds)
    => /\ n_prompts = rounds
       /\ rounds <= 2
       /\ (route = "postprocess_pii_items" <=> rounds = 2)
       /\ (Terminal => rounds = 2)

C2_Witness ==
    /\ REPROMPTING /\ MAX_PROMPTS = 2
    /\ pc = "END" /\ rounds = 2 /\ productive = 2 /\ n_prompts = 2

\* C3: with REPROMPTING off, for every MAX_PROMPTS and every oracle behaviour,
\* there is one detection round only: _should_reprompt never returns
\* mask_documents, no masking node runs, and a run that decided has made
\* exactly one round.
C3_OneRoundWithoutReprompting ==
    ~REPROMPTING
    => /\ rounds <= 1
       /\ route \in {"none", "postprocess_pii_items"}
       /\ pc \notin {"mask_documents", "mask_text", "collect_masked_chunks"}
       /\ (route # "none" => rounds = 1)

C3_Witness ==
    /\ ~REPROMPTING /\ MAX_PROMPTS = 2
    /\ pc = "END" /\ rounds = 1 /\ productive = 1 /\ n_prompts = 1

\* the tasks of the finished round that recorded, and the entries they added
RecordedNow == {i \in Indices : Recorded(i)}
AddedNow(items) == Slice(items, Len(items) - Cardinality(RecordedNow), Len(items))

\* C4: a chunk whose response cannot be parsed, or whose call fails, adds
\* nothing, the entries of the round are exactly those of the other tasks,
\* and the final output still holds the detections of the other chunks of
\* its document.
C4_FailedChunkIsolated ==
    /\ pc = "group_pii_by_file"
       => /\ \A i \in Indices : Failed(i) => ~Recorded(i)
          /\ \A i \in RecordedNow :
                \E k \in 1..Cardinality(RecordedNow) :
                   /\ AddedNow(origins)[k] = sends[i]
                   /\ AddedNow(partial_pii_items)[k] = responses[i].json
    /\ pc = "END"
       => \A d \in spared :
             \E k \in FinalOf(d) :
                \A j \in 1..Len(document_partial_pii_items[d]) :
                   \A m \in 1..Len(document_partial_pii_items[d][j]) :
                      Occurrences(final_pii_items[k].pii, document_partial_pii_items[d][j][m]) >= 1

\* C5: fan-in barrier.  Aggregation starts only when every detection task of
\* the round has returned; the accumulated partial results change only while
\* the detection tasks run; and a new round is dispatched only by
\* collect_masked_chunks, after the aggregation and the decision of the round
\* before it.
C5_FanInBarrier ==
    [][ /\ (pc = "group_pii_by_file" => done = Indices /\ DOMAIN responses = Indices)
        /\ (pc # "identify_pii_items"
               => partial_pii_items' = partial_pii_items /\ document_ids' = document_ids)
        /\ (rounds >= 1 /\ rounds' = rounds + 1
               => /\ pc = "collect_masked_chunks"
                  /\ sends = <<>>
                  /\ route = "mask_documents"
                  /\ document_partial_pii_items
                        = _group_pii_by_file(document_ids, partial_pii_items)) ]_vars

C5_Witness ==
    /\ pc = "group_pii_by_file" /\ rounds = 2 /\ Len(sends) >= 2
    /\ Cardinality(RecordedNow) >= 2

\* C6: under any interleaving of the detection tasks of the documents,
\* document_ids and partial_pii_items have the same length, position by
\* position they come from the same task, and what _group_pii_by_file files
\* under a document id was recorded by tasks of that document.
C6_ResultsAttributedToTheirDocument ==
    /\ Len(document_ids) = Len(partial_pii_items)
    /\ Len(origins) = Len(partial_pii_items)
    /\ \A k \in 1..Len(document_ids) : document_ids[k] = origins[k].document_id
    /\ \A d \in DOMAIN document_partial_pii_items :
          IsPrefix(document_partial_pii_items[d], FromDocument(d, partial_pii_items, origins))

C6_Witness ==
    /\ pc = "mask_documents"
    /\ DOMAIN document_partial_pii_items = {"d1", "d2"}
    /\ Len(document_ids) = 3
    /\ document_ids[1] = "d1" /\ document_ids[2] = "d2" /\ document_ids[3] = "d1"

\* C7: when the decision is to finalize, combine_file_pii_items has run for
\* every document with accumulated partial results and filled
\* collected_pii_items before postprocess_pii_items runs.
C7_ReduceBeforeDedup ==
    pc = "postprocess_pii_items"
    => \A d \in DOMAIN document_partial_pii_items : d \in DOMAIN collected_pii_items

\* C8: with MAX_PROMPTS = 2, when round 1 reports only record A and round 2
\* only record B for a document, its final list holds A and B, each once.
C8_FinalOutputMergesRounds ==
    ( /\ pc = "END" /\ MAX_PROMPTS = 2
      /\ "d2" \in DOMAIN document_partial_pii_items
      /\ document_partial_pii_items["d2"] = << <<RecA>>, <<RecB>> >> )
    => \E k \in FinalOf("d2") :
          /\ Occurrences(final_pii_items[k].pii, RecA) = 1
          /\ Occurrences(final_pii_items[k].pii, RecB) = 1

\* C9: the final output has an entry for every loaded document.
C9_OutputCoversLoadedDocuments ==
    pc = "END" => \A d \in Loaded : FinalOf(d) # {}

\* the texts of every record of every accumulated partial result of a file
AllPiiTexts(pii_items) ==
    UNION {{pii_items[j][m].text : m \in 1..Len(pii_items[j])} : j \in 1..Len(pii_items)}

\* C10: _mask_documents selects every chunk that shows the normalized text of
\* any record of any accumulated partial result of its document.
C10_MaskingUsesEveryDetection ==
    pc = "mask_documents"
    => LET selected == _mask_documents(document_chunks, document_partial_pii_items)
       IN  \A d \in DOMAIN document_partial_pii_items :
              \A k \in 1..Len(Get(document_chunks, d)) :
                 (\E t \in AllPiiTexts(document_partial_pii_items[d]) :
                      pii_exist_in_text(document_chunks[d][k], <<t>>))
                 => \E n \in 1..Len(Get(selected, d)) : selected[d][n] = document_chunks[d][k]


-----------------------------------------------------------------------------
(* The masking step on its own: the state right after mask_documents, for  *)
(* one document of two chunks and one partial result, the chunk text and   *)
(* the detected spans drawn from bounded sets; mask_text runs on each      *)
(* chunk.                                                                  *)

\* longest generated chunk text, and most spans in the partial result
MaxTextLen == 3
MaxPii == 2

MaskChars == {"a", "A", "*", "fi_lig"}

RECURSIVE TextsUpTo(_)
TextsUpTo(n) ==
    IF n = 0 THEN {<<>>}
    ELSE LET shorter == TextsUpTo(n - 1)
         IN  shorter \cup {Append(t, c) : t \in shorter, c \in MaskChars}

\* spans an oracle may report for such texts
MaskSpans ==
    { <<"a">>, <<"a", "a">>, <<"a", "*">>, <<"f", "i">>, <<"i">>, <<"*">> }

RECURSIVE SpanListsUpTo(_)
SpanListsUpTo(n) ==
    IF n = 0 THEN {<<>>}
    ELSE LET shorter == SpanListsUpTo(n - 1)
         IN  shorter \cup {Append(l, p) : l \in shorter, p \in MaskSpans}

\* Scenario 4 of the spec: spans at [0,5) and [3,8) of a text of 8 characters
Scenario4Text  == <<"a", "a", "a", "a", "A", "a", "a", "a">>
Scenario4Spans == << <<"a", "a", "a", "a", "A">>, <<"a", "A", "a", "a", "a">> >>

\* Scenario 2 of the spec: "John Doe's email is d.joe@brand.co" and "John Doe"
Scenario2Text ==
    <<"J", "o", "h", "n", " ", "D", "o", "e", "'", "s", " ", "e", "m", "a", "i", "l",
      " ", "i", "s", " ", "d", ".", "j", "o", "e", "@", "b", "r", "a", "n", "d", ".",
      "c", "o">>
Scenario2Spans == << <<"J", "o", "h", "n", " ", "D", "o", "e">> >>
Scenario2Masked ==
    <<"*", "*", "*", "*", " ", "*", "*", "*", "'", "s", " ", "e", "m", "a", "i", "l",
      " ", "i", "s", " ", "d", ".", "j", "o", "e", "@", "b", "r", "a", "n", "d", ".",
      "c", "o">>

\* a text with a decomposed accent ("a" and a combining acute) and that span
DecomposedText  == <<"a", "comb_acute", "a", "a">>
DecomposedSpans == << <<"a", "comb_acute">> >>

MaskInputs ==
    {[text |-> t, spans |-> l] : t \in TextsUpTo(MaxTextLen), l \in SpanListsUpTo(MaxPii)}
    \cup {[text |-> Scenario4Text, spans |-> Scenario4Spans],
          [text |-> Scenario2Text, spans |-> Scenario2Spans],
          [text |-> DecomposedText, spans |-> DecomposedSpans]}

\* a chunk of white space, as the chunker leaves between words
BlankChunk == <<" ">>

\* the partial result '[{"text": ..., "category": ...}, ...]' for a list of spans
SpanRecords(spans) == [k \in 1..Len(spans) |-> [text |-> spans[k], category |-> <<"n">>]]

MaskInit ==
    \E input \in MaskInputs :
      /\ files = Files
      /\ CHUNK_SIZE = CHUNK_SIZE_DEFAULT
      /\ CHUNK_OVERLAP = CHUNK_OVERLAP_DEFAULT
      /\ REPROMPTING = TRUE
      /\ MAX_PROMPTS = MAX_PROMPTS_DEFAULT
      /\ document_chunks = [d \in {"d1"} |-> <<input.text, BlankChunk>>]
      /\ document_partial_pii_items = [d \in {"d1"} |-> <<SpanRecords(input.spans)>>]
      /\ partial_pii_items = <<SpanRecords(input.spans)>>
      /\ document_ids = <<"d1">>
      /\ sends = _map_masked_chunks(document_chunks, document_partial_pii_items)
      /\ pc = "mask_text"
      /\ done = {}
      /\ responses = EmptyDict
      /\ n_prompts = 1
      /\ documents = <<>>
      /\ collected_pii_items = EmptyDict
      /\ masked_chunks = <<>>
      /\ final_pii_items = <<>>
      /\ rounds = 1
      /\ productive = 1
      /\ route = "mask_documents"
      /\ origins = <<>>
      /\ spared = {}
      /\ SingleRun

MaskNext == \E i \in Indices : MaskText(i)

MaskSpec == MaskInit /\ [][MaskNext]_vars

\* the chunk text, the spans and the result of entry j of masked_chunks
MaskedFrom(j)  == sends[masked_chunks[j].chunk_index + 1].chunk_content
MaskedWith(j)  == PiiList(sends[masked_chunks[j].chunk_index + 1].pii_items)
MaskedText(j)  == masked_chunks[j].content
MaskedEntries  == IF pc = "mask_text" THEN 1..Len(masked_chunks) ELSE {}


-----------------------------------------------------------------------------
(* Claims on the masking step *)

\* the chunk shows no text of any record accumulated for its document
NoDetectedSpan(chunk, d) ==
    \A t \in AllPiiTexts(Get(document_partial_pii_items, d)) :
       ~pii_exist_in_text(chunk, <<t>>)

\* C11: a chunk that contains no detected span passes through the masking
\* step: mask_documents leaves it, with the same text, among the chunks of
\* its document, from which the next round's chunk set is made.
C11_UnmatchedChunksPassThrough ==
    [][pc = "mask_documents"
       => \A d \in DOMAIN document_chunks :
             \A k \in 1..Len(document_chunks[d]) :
                NoDetectedSpan(document_chunks[d][k], d)
                => /\ d \in DOMAIN document_chunks'
                   /\ \E n \in 1..Len(document_chunks'[d]) :
                         document_chunks'[d][n] = document_chunks[d][k]]_vars

\* C12: the masked text of a chunk has as many characters as the chunk.
C12_MaskingPreservesLength ==
    \A j \in MaskedEntries : Len(MaskedText(j)) = Len(MaskedFrom(j))

\* no span of the list holds a mask character
NoMaskCharacter(spans) == \A k \in 1..Len(spans) : ~Contains(spans[k], <<"*">>)

\* C13: masking the masked text again with the same spans changes nothing;
\* stated for the spans that hold no mask character, which the spec's
\* guarantee sets apart.
C13_MaskingIdempotent ==
    \A j \in MaskedEntries :
       NoMaskCharacter(MaskedWith(j))
       => mask_text_with_normalization(MaskedText(j), MaskedWith(j)) = MaskedText(j)

\* C14: every chunk for which pii_exist_in_text holds (accents stripped and
\* case folded) is changed by the masking.
C14_MaskingMatchesCaseVariants ==
    \A j \in MaskedEntries :
       pii_exist_in_text(MaskedFrom(j), MaskedWith(j)) => MaskedText(j) # MaskedFrom(j)

\* the ranges the match loop finds for a text and a list of spans
AllMatchRanges(text, spans) ==
    UNION {MatchRanges(text, _normalize_and_strip(text), spans[k], 0) : k \in 1..Len(spans)}

InRanges(k, ranges) == \E r \in ranges : r[1] <= k /\ k < r[2]

\* C15: the masked positions are exactly the union of the match ranges,
\* overlapping or adjacent ranges becoming one run of mask characters, and
\* every position outside the union keeps its character.
C15_MaskedPositionsAreUnionOfRanges ==
    \A j \in MaskedEntries :
       LET ranges == AllMatchRanges(MaskedFrom(j), MaskedWith(j))
       IN  /\ Len(MaskedText(j)) >= Len(MaskedFrom(j))
           /\ \A r \in ranges : r[2] <= Len(MaskedText(j))
           /\ \A k \in 0..(Len(MaskedText(j)) - 1) :
                 IF InRanges(k, ranges)
                 THEN MaskedText(j)[k + 1] = "*"
                 ELSE k < Len(MaskedFrom(j)) /\ MaskedText(j)[k + 1] = MaskedFrom(j)[k + 1]

\* Scenario 4: the ranges [0,5) and [3,8) were masked as the one span [0,8)
C15_Witness ==
    \E j \in MaskedEntries :
       /\ MaskedFrom(j) = Scenario4Text
       /\ AllMatchRanges(MaskedFrom(j), MaskedWith(j)) = {<<0, 5>>, <<3, 8>>}
       /\ MaskedText(j) = Stars(8)

\* C16: "John Doe's email is d.joe@brand.co" masked with the span "John Doe"
\* is "**** ***'s email is d.joe@brand.co": the space inside the span stays.
C16_MaskingKeepsSpaceInsideSpan ==
    \A j \in MaskedEntries :
       (MaskedFrom(j) = Scenario2Text /\ MaskedWith(j) = Scenario2Spans)
       => MaskedText(j) = Scenario2Masked


-----------------------------------------------------------------------------
(* The dedup step on its own: the state in which postprocess_pii_items     *)
(* starts, with the merged record list of one document drawn from a        *)
(* bounded set.                                                            *)

\* longest merged record list
MaxRecords == 3

Rec(text, category, justification) ==
    [text |-> text, category |-> category, justification |-> justification]

\* records an oracle may return: the same pair twice with different other
\* fields, pairs whose joined keys coincide, texts with mask characters
DedupRecords ==
    { Rec(<<"a">>, <<"n">>, <<"1">>),
      Rec(<<"a">>, <<"n">>, <<"2">>),
      Rec(<<"b">>, <<"n">>, <<"1">>),
      Rec(<<"a", "_", "b">>, <<"c">>, <<"1">>),
      Rec(<<"a">>, <<"b", "_", "c">>, <<"1">>),
      Rec(<<"*">>, <<"n">>, <<"1">>),
      Rec(<<"*", "*", "*", "*">>, <<"n">>, <<"1">>),
      Rec(<<"a", "*", "*", "*", "*">>, <<"n">>, <<"1">>) }

RECURSIVE RecordListsUpTo(_)
RecordListsUpTo(n) ==
    IF n = 0 THEN {<<>>}
    ELSE LET shorter == RecordListsUpTo(n - 1)
         IN  shorter \cup {Append(l, r) : l \in shorter, r \in DedupRecords}

DedupInit ==
    \E merged \in RecordListsUpTo(MaxRecords) :
      /\ files = Files
      /\ CHUNK_SIZE = CHUNK_SIZE_DEFAULT
      /\ CHUNK_OVERLAP = CHUNK_OVERLAP_DEFAULT
      /\ REPROMPTING = FALSE
      /\ MAX_PROMPTS = MAX_PROMPTS_DEFAULT
      /\ collected_pii_items = [d \in {"d1"} |-> merged]
      /\ pc = "postprocess_pii_items"
      /\ sends = <<>>
      /\ done = {}
      /\ responses = EmptyDict
      /\ n_prompts = 1
      /\ documents = <<>>
      /\ document_chunks = EmptyDict
      /\ document_ids = <<>>
      /\ partial_pii_items = <<>>
      /\ document_partial_pii_items = EmptyDict
      /\ masked_chunks = <<>>
      /\ final_pii_items = <<>>
      /\ rounds = 1
      /\ productive = 1
      /\ route = "postprocess_pii_items"
      /\ origins = <<>>
      /\ spared = {}
      /\ SingleRun

DedupNext == PostprocessPiiItems

DedupSpec == DedupInit /\ [][DedupNext]_vars

\* the merged list of the document and, once the step has run, its final list
DedupFrom == collected_pii_items["d1"]
Deduped   == final_pii_items[1].pii
DedupDone == pc = "END" /\ Len(final_pii_items) = 1

SamePair(r, q) == r.text = q.text /\ r.category = q.category

\* the index in l of the first record with the pair of r
FirstIndex(l, r) ==
    CHOOSE i \in 1..Len(l) : SamePair(l[i], r) /\ \A j \in 1..(i - 1) : ~SamePair(l[j], r)

\* a text of one or more mask characters and nothing else
AllMask(text) == Len(text) >= 1 /\ \A k \in 1..Len(text) : text[k] = "*"

\* C17: the final list of a document holds at most one record per
\* (text, category) pair, the record kept for a pair is the first of the
\* merged list with that pair, and the kept records are in the order of the
\* merged list.
C17_OneRecordPerPairFirstKept ==
    DedupDone
    => /\ \A i, j \in 1..Len(Deduped) : SamePair(Deduped[i], Deduped[j]) => i = j
       /\ \A i \in 1..Len(Deduped) :
             /\ \E k \in 1..Len(DedupFrom) : SamePair(DedupFrom[k], Deduped[i])
             /\ Deduped[i] = DedupFrom[FirstIndex(DedupFrom, Deduped[i])]
       /\ \A i, j \in 1..Len(Deduped) :
             i < j => FirstIndex(DedupFrom, Deduped[i]) < FirstIndex(DedupFrom, Deduped[j])

\* the pair (a, n) came three times, with a record of another pair between,
\* and its first record was kept
C17_Witness ==
    /\ DedupDone
    /\ DedupFrom = <<Rec(<<"a">>, <<"n">>, <<"2">>), Rec(<<"b">>, <<"n">>, <<"1">>),
                     Rec(<<"a">>, <<"n">>, <<"1">>)>>
    /\ Deduped = <<Rec(<<"a">>, <<"n">>, <<"2">>), Rec(<<"b">>, <<"n">>, <<"1">>)>>

\* C18: records are duplicates only if text and category are both equal: a
\* record without mask characters whose pair did not come before it in the
\* merged list is kept.
C18_DedupIdentityIsThePair ==
    DedupDone
    => \A k \in 1..Len(DedupFrom) :
          (/\ ~Contains(DedupFrom[k].text, <<"*">>)
           /\ \A j \in 1..(k - 1) : ~SamePair(DedupFrom[j], DedupFrom[k]))
          => \E i \in 1..Len(Deduped) : Deduped[i] = DedupFrom[k]

\* C19: a record is dropped as a mask artifact exactly when its text is
\* nothing but mask characters: of the records whose joined key did not come
\* before in the merged list, those and only those are missing from the
\* final list.
C19_DropsExactlyAllMaskTexts ==
    DedupDone
    => \A k \in 1..Len(DedupFrom) :
          (\A j \in 1..(k - 1) :
              DedupFrom[j].text \o <<"_">> \o DedupFrom[j].category
              # DedupFrom[k].text \o <<"_">> \o DedupFrom[k].category)
          => (AllMask(DedupFrom[k].text)
              <=> ~\E i \in 1..Len(Deduped) : Deduped[i] = DedupFrom[k])

\* C20: the dedup loop applied to the final list of a document returns it.
C20_DedupIdempotent ==
    DedupDone => Unique(Deduped, {}, <<>>) = Deduped

\* a merged list with a duplicate and a masked record was reduced to two records
C20_Witness ==
    /\ DedupDone
    /\ Len(DedupFrom) = MaxRecords
    /\ Len(Deduped) = 2
    /\ \E k \in 1..Len(DedupFrom) : Contains(DedupFrom[k].text, Stars(4))


-----------------------------------------------------------------------------
(* Claims on chunking, dispatch and aggregation in the graph *)

\* C21: a document shorter than the chunk size is one chunk, the whole text:
\* split_document stores a list of that one chunk and the first round
\* dispatches exactly one detection task for the document.
C21_ShortDocumentIsOneChunk ==
    (pc = "identify_pii_items" /\ rounds = 1)
    => \A k \in 1..Len(documents) :
          (documents[k].content # <<>> /\ Len(documents[k].content) < CHUNK_SIZE)
          => /\ documents[k].id \in DOMAIN document_chunks
             /\ document_chunks[documents[k].id] = <<documents[k].content>>
             /\ Cardinality({i \in Indices : sends[i].document_id = documents[k].id}) = 1

\* C24: a response that is a valid non-empty JSON array without the code
\* fence adds its records to the round's partial results, as the fenced
\* form does.
C24_FenceIsOptional ==
    pc = "group_pii_by_file"
    => \A i \in Indices :
          (/\ ~responses[i].raises /\ ~responses[i].fenced
           /\ responses[i].valid /\ responses[i].json # <<>>)
          => \E k \in 1..Len(AddedNow(origins)) :
                /\ AddedNow(origins)[k] = sends[i]
                /\ AddedNow(partial_pii_items)[k] = responses[i].json

\* the tasks of the round that recorded, in the order of dispatch
RecordedInOrder == SelectSeq([i \in 1..Len(sends) |-> i], LAMBDA i : Recorded(i))

\* the grouped structure when the tasks complete in the order of dispatch
GroupedInDispatchOrder ==
    _group_pii_by_file([k \in 1..Len(RecordedInOrder) |-> sends[RecordedInOrder[k]].document_id],
                       [k \in 1..Len(RecordedInOrder) |-> responses[RecordedInOrder[k]].json])

\* C25: the grouped structure of the first round is the same for every order
\* in which the tasks complete: it is the one of the order of dispatch.
C25_AggregationOrderIndependent ==
    [][(pc = "group_pii_by_file" /\ rounds = 1)
       => document_partial_pii_items' = GroupedInDispatchOrder]_vars

\* the detection tasks whose oracle call is in flight
InFlight == IF pc = "identify_pii_items" THEN Indices \ done ELSE {}

\* the spec's maxConcurrentDetections (default 25), scaled to rounds of four chunks
MaxConcurrentDetections == 2

\* C27: at most maxConcurrentDetections detection tasks are in flight.
C27_InFlightWithinLimit == Cardinality(InFlight) <= MaxConcurrentDetections

\* C28: n_prompts never decreases and never exceeds MAX_PROMPTS.
C28_RoundCounterMonotoneAndBounded ==
    [][n_prompts' >= n_prompts /\ n_prompts' <= MAX_PROMPTS]_vars

\* the counter reached MAX_PROMPTS in a round in which two tasks recorded
C28_Witness ==
    /\ pc = "group_pii_by_file"
    /\ MAX_PROMPTS = 2
    /\ n_prompts = 2
    /\ Cardinality(RecordedNow) >= 2


-----------------------------------------------------------------------------
(* The intake on its own: a run from its start to the first dispatch of    *)
(* detection tasks, for no file or one file whose content is drawn from a  *)
(* bounded set, and for chunk parameters drawn from a range that holds     *)
(* invalid ones.                                                           *)

\* longest generated document, and largest chunk size and overlap
MaxDocLen == 7
MaxChunkSize == 6

\* characters that are no separator of the splitter
DocChars == {"a", "b"}

RECURSIVE DocTextsUpTo(_)
DocTextsUpTo(n) ==
    IF n = 0 THEN {<<>>}
    ELSE LET shorter == DocTextsUpTo(n - 1)
         IN  shorter \cup {Append(t, c) : t \in shorter, c \in DocChars}

\* the 'files' of a run: none, or one file
IntakeInputs ==
    {<<>>} \cup {<<[id |-> "d1", content |-> t]>> : t \in DocTextsUpTo(MaxDocLen)}

IntakeInit ==
    /\ files \in IntakeInputs
    /\ CHUNK_SIZE \in 0..MaxChunkSize
    /\ CHUNK_OVERLAP \in (-1)..MaxChunkSize
    /\ REPROMPTING = FALSE
    /\ MAX_PROMPTS = MAX_PROMPTS_DEFAULT
    /\ sends = _map_input(files)
    /\ pc = IF sends = <<>> THEN "halt" ELSE "load_document"
    /\ done = {}
    /\ responses = EmptyDict
    /\ n_prompts = 0
    /\ documents = <<>>
    /\ document_chunks = EmptyDict
    /\ document_ids = <<>>
    /\ partial_pii_items = <<>>
    /\ document_partial_pii_items = EmptyDict
    /\ collected_pii_items = EmptyDict
    /\ masked_chunks = <<>>
    /\ final_pii_items = <<>>
    /\ rounds = 0
    /\ productive = 0
    /\ route = "none"
    /\ origins = <<>>
    /\ spared = {}
    /\ SingleRun

IntakeNext ==
    \/ \E i \in Indices : LoadDocument(i)
    \/ \E i \in Indices : SplitDocument(i)

IntakeSpec == IntakeInit /\ [][IntakeNext]_vars

\* C22: with valid chunk parameters, every chunk of a document at least as
\* long as the chunk size has at most CHUNK_SIZE characters.
C22_ChunksWithinChunkSize ==
    \A k \in 1..Len(documents) :
       (/\ CHUNK_SIZE > 0 /\ CHUNK_OVERLAP >= 0 /\ CHUNK_OVERLAP < CHUNK_SIZE
        /\ Len(documents[k].content) >= CHUNK_SIZE
        /\ documents[k].id \in DOMAIN document_chunks)
       => \A n \in 1..Len(document_chunks[documents[k].id]) :
             Len(document_chunks[documents[k].id][n]) <= CHUNK_SIZE

\* a chunk size <= 0, an overlap < 0 or an overlap >= the chunk size
BadChunkConfig == CHUNK_SIZE <= 0 \/ CHUNK_OVERLAP < 0 \/ CHUNK_OVERLAP >= CHUNK_SIZE

\* C23: with such parameters chunking produces no chunks and the run ends in
\* the error as soon as a document is split; no detection task is
\* dispatched; and the run ends in that error for no other parameters.
C23_BadChunkConfigAbortsRun ==
    /\ BadChunkConfig
       => /\ document_chunks = EmptyDict
          /\ pc \in {"load_document", "split_document", "error", "halt"}
          /\ pc = "halt" => documents = <<>>
    /\ pc = "error" => BadChunkConfig

\* a loaded document was to be split with an overlap equal to the chunk size
C23_Witness ==
    /\ pc = "error"
    /\ documents # <<>>
    /\ CHUNK_SIZE > 0
    /\ CHUNK_OVERLAP = CHUNK_SIZE

\* C30: a run started with no files is rejected with an error; it does not
\* end as a run that completed.
C30_NoInputIsRejected == files = <<>> => pc = "error"


-----------------------------------------------------------------------------
(* Claims on the dispatch of a round *)

\* how many chunks of document d have the text c, and how many detection
\* tasks of the round were dispatched for d with the text c
ChunksOf(d, c) ==
    Cardinality({k \in 1..Len(Get(document_chunks, d)) : document_chunks[d][k] = c})
TasksOf(d, c) ==
    Cardinality({i \in Indices : sends[i].document_id = d /\ sends[i].content = c})

-----------------------------------------------------------------------------
(* A detection round in which an oracle call may never return.             *)
(* _identify_pii_items awaits llm.ainvoke(prompt) with no deadline of its  *)
(* own, and get_llm builds the client with no timeout, so a call that does *)
(* not return leaves its task running: the task is in no later state of    *)
(* the round and the superstep waits for it.                               *)

\* the entry of responses for a call that was made and has not returned
NeverReturns == [raises |-> FALSE, fenced |-> FALSE, valid |-> FALSE, json |-> <<"pending">>]

\* the tasks of the round whose call was made and will not return
Hung == {i \in Indices \ done : i \in DOMAIN responses /\ responses[i] = NeverReturns}

\* the oracle call of task i is made and never returns
OracleNeverReturns(i) ==
    /\ pc = "identify_pii_items"
    /\ i \in Indices \ done
    /\ i \notin DOMAIN responses
    /\ responses' = DictOr(responses, [k \in {i} |-> NeverReturns])
    /\ llm' = "client"
    /\ UNCHANGED <<other, run, files, CHUNK_SIZE, CHUNK_OVERLAP, REPROMPTING, MAX_PROMPTS, pc, sends, done,
                   n_prompts, documents, document_chunks, document_ids, partial_pii_items,
                   document_partial_pii_items, collected_pii_items, masked_chunks,
                   final_pii_items, rounds, productive, route, origins, spared>>

LiveInit ==
    /\ Init
    /\ REPROMPTING = FALSE
    /\ MAX_PROMPTS = 1

LiveNext ==
    \/ \E i \in Indices : LoadDocument(i)
    \/ \E i \in Indices : SplitDocument(i)
    \/ \E i \in Indices : i \notin DOMAIN responses /\ IdentifyPiiItems(i)
    \/ \E i \in Indices : OracleNeverReturns(i)
    \/ GroupPiiByFile

\* every task that can take a step takes it: the event loop runs each
\* task that is ready
LiveSpec == LiveInit /\ [][LiveNext]_vars /\ WF_vars(LiveNext)

\* C29: the fan-in barrier of a detection round is eventually passed, also
\* when an oracle call of the round never returns.
C29_BarrierEventuallyPassed ==
    (pc = "identify_pii_items") ~> (pc # "identify_pii_items")


-----------------------------------------------------------------------------
(* The normalizer of OIFile on texts with spaces, newlines and punctuation *)

MaxNormLen == 4

NormChars == {"a", " ", "\n", "."}

NormTextsUpTo(n) ==
    UNION {[1..m -> NormChars] : m \in 0..n}

NormInputs == {<<[id |-> "d1", content |-> t]>> : t \in NormTextsUpTo(MaxNormLen)}

\* a run whose one file has any of the texts, up to the loading of the file
NormInit ==
    /\ files \in NormInputs
    /\ CHUNK_SIZE = CHUNK_SIZE_DEFAULT
    /\ CHUNK_OVERLAP = CHUNK_OVERLAP_DEFAULT
    /\ REPROMPTING = FALSE
    /\ MAX_PROMPTS = 1
    /\ sends = _map_input(files)
    /\ pc = "load_document"
    /\ done = {}
    /\ responses = EmptyDict
    /\ n_prompts = 0
    /\ documents = <<>>
    /\ document_chunks = EmptyDict
    /\ document_ids = <<>>
    /\ partial_pii_items = <<>>
    /\ document_partial_pii_items = EmptyDict
    /\ collected_pii_items = EmptyDict
    /\ masked_chunks = <<>>
    /\ final_pii_items = <<>>
    /\ rounds = 0
    /\ productive = 0
    /\ route = "none"
    /\ origins = <<>>
    /\ spared = {}
    /\ SingleRun

NormNext == \E i \in Indices : LoadDocument(i)

NormSpec == NormInit /\ [][NormNext]_vars

\* the dictionary form of a document, and the document built again from it
to_dict(document) == [id |-> document.id, content |-> document.content]
Rebuilt(d) == OIFile(d.id, d.content)

\* C33: a loaded document built again from its dictionary form has the same
\* content: the normalizer applied to its own output changes nothing.
C33_NormalizerIdempotent ==
    \A k \in 1..Len(documents) :
       Rebuilt(to_dict(documents[k])).content = documents[k].content


-----------------------------------------------------------------------------
(* Claims on the entries of the final output *)

\* C34: every entry of the final output of a document that had at least one
\* merged record has a pii list that is not empty, also when the dedup loop
\* removed every record of the document.
C34_NoEntryWithEmptyList ==
    pc = "END"
    => \A k \in 1..Len(final_pii_items) :
          Get(collected_pii_items, final_pii_items[k].id) # <<>>
          => final_pii_items[k].pii # <<>>


-----------------------------------------------------------------------------
(* Claims on the collection of the masked chunks of a round *)

\* the masked text the current round produces for chunk k (from 1) of document
\* d: the payload _map_masked_chunks builds for it, given to _mask_text; the
\* chunk itself when the round masks nothing of d
CurrentMasked(d, k) ==
    LET made == _mask_text([document_id   |-> d,
                            chunk_index   |-> k - 1,
                            chunk_content |-> document_chunks[d][k],
                            pii_items     |-> Get(document_partial_pii_items, d)])
    IN  IF made = <<>> THEN document_chunks[d][k] ELSE made[1].content

\* C36: collect_masked_chunks addresses no index outside a chunk list, keeps
\* the length of every chunk list, and leaves in every chunk the masked text
\* of the current round.
C36_CollectUsesCurrentRound ==
    [][pc = "collect_masked_chunks"
       => /\ pc' # "error"
          /\ \A d \in DOMAIN document_chunks :
                /\ d \in DOMAIN document_chunks'
                /\ Len(document_chunks'[d]) = Len(document_chunks[d])
                /\ \A k \in 1..Len(document_chunks[d]) :
                      document_chunks'[d][k] = CurrentMasked(d, k)]_vars


-----------------------------------------------------------------------------
(* Runs whose input holds descriptors that cannot be loaded *)

\* a descriptor of "d3" with content and without 'meta'
RaisingFile == [id |-> "d3", content |-> <<"a", "b">>, no_meta |-> TRUE]

Descriptors == {Files[1], Files[2], Files[3], RaisingFile}

\* the inputs of one to three descriptors with different ids, in any order
LoadInputs ==
    {fs \in UNION {[1..n -> Descriptors] : n \in 1..3} :
        \A j, k \in 1..Len(fs) : j # k => fs[j].id # fs[k].id}

LoadInit ==
    /\ files \in LoadInputs
    /\ CHUNK_SIZE = CHUNK_SIZE_DEFAULT
    /\ CHUNK_OVERLAP = CHUNK_OVERLAP_DEFAULT
    /\ REPROMPTING = FALSE
    /\ MAX_PROMPTS = 1
    /\ sends = _map_input(files)
    /\ pc = "load_document"
    /\ done = {}
    /\ responses = EmptyDict
    /\ n_prompts = 0
    /\ documents = <<>>
    /\ document_chunks = EmptyDict
    /\ document_ids = <<>>
    /\ partial_pii_items = <<>>
    /\ document_partial_pii_items = EmptyDict
    /\ collected_pii_items = EmptyDict
    /\ masked_chunks = <<>>
    /\ final_pii_items = <<>>
    /\ rounds = 0
    /\ productive = 0
    /\ route = "none"
    /\ origins = <<>>
    /\ spared = {}
    /\ SingleRun

LoadNext ==
    \/ \E i \in Indices : LoadDocument(i)
    \/ \E i \in Indices : SplitDocument(i)

LoadSpec == LoadInit /\ [][LoadNext]_vars

\* the descriptors of the input that can be loaded, and the input without
\* the others
Loadable(file) == file.content # <<>> /\ ~LoadingRaises(file)
GoodFiles == SelectSeq(files, Loadable)
GoodDocuments == {OIFile(GoodFiles[k].id, GoodFiles[k].content) : k \in 1..Len(GoodFiles)}

\* the chunk sets the loadable descriptors give, and the tasks of their
\* first round
GoodChunks ==
    LET ids == {g.id : g \in {d \in GoodDocuments : chunk_document(d, CHUNK_SIZE) # <<>>}}
    IN  [id \in ids |->
            chunk_document(CHOOSE d \in GoodDocuments : d.id = id, CHUNK_SIZE)]

\* C31: a descriptor without content, or whose loading raises, gives no
\* Document, no chunk and no task and does not end the run; the documents,
\* chunk sets and tasks are those of the input without such descriptors.
C31_BadDescriptorIsSkipped ==
    /\ pc # "error"
    /\ \A k \in 1..Len(documents) : documents[k] \in GoodDocuments
    /\ \A j, k \in 1..Len(documents) : j # k => documents[j].id # documents[k].id
    /\ pc # "load_document" => Len(documents) = Len(GoodFiles)
    /\ pc = "split_document"
       => /\ Len(sends) = Len(GoodFiles)
          /\ \A i \in Indices : sends[i].document \in GoodDocuments
          /\ \A i \in done : sends[i].document.id \in DOMAIN GoodChunks
                => document_chunks[sends[i].document.id]
                      = GoodChunks[sends[i].document.id]
          /\ DOMAIN document_chunks \subseteq DOMAIN GoodChunks
    /\ pc = "identify_pii_items"
       => /\ document_chunks = GoodChunks
          /\ sends = _map_chunks(GoodChunks, 0)
    /\ pc = "halt" => _map_chunks(GoodChunks, 0) = <<>>

\* two documents were loaded and split beside a descriptor whose loading
\* raised
C31_Witness ==
    /\ pc = "identify_pii_items"
    /\ Len(files) = 3
    /\ \E k \in 1..Len(files) : LoadingRaises(files[k])
    /\ Len(documents) = 2


-----------------------------------------------------------------------------
(* Runs in which the oracle may answer with malformed records *)

\* two documents of one chunk each
MalformedFiles ==
    << [id |-> "d1", content |-> <<"b", "b", "a", "b", "b">>], Files[2] >>

MalformedInit ==
    /\ files = MalformedFiles
    /\ CHUNK_SIZE = CHUNK_SIZE_DEFAULT
    /\ CHUNK_OVERLAP = CHUNK_OVERLAP_DEFAULT
    /\ REPROMPTING = TRUE
    /\ MAX_PROMPTS = MAX_PROMPTS_DEFAULT
    /\ sends = _map_input(files)
    /\ pc = "load_document"
    /\ done = {}
    /\ responses = EmptyDict
    /\ n_prompts = 0
    /\ documents = <<>>
    /\ document_chunks = EmptyDict
    /\ document_ids = <<>>
    /\ partial_pii_items = <<>>
    /\ document_partial_pii_items = EmptyDict
    /\ collected_pii_items = EmptyDict
    /\ masked_chunks = <<>>
    /\ final_pii_items = <<>>
    /\ rounds = 0
    /\ productive = 0
    /\ route = "none"
    /\ origins = <<>>
    /\ spared = {}
    /\ SingleRun

MalformedNext ==
    \/ \E i \in Indices : LoadDocument(i)
    \/ \E i \in Indices : SplitDocument(i)
    \/ \E i \in Indices : IdentifyPiiItems(i)
    \/ \E i \in Indices : IdentifyPiiItemsMalformed(i)
    \/ GroupPiiByFile
    \/ MaskDocuments
    \/ \E i \in Indices : MaskText(i)
    \/ CollectMaskedChunks
    \/ PostprocessPiiItems

MalformedSpec == MalformedInit /\ [][MalformedNext]_vars

\* C35: mask_documents, mask_text and postprocess_pii_items never end the
\* run with an exception, also when a recorded response is an array of
\* malformed records.
C35_MalformedRecordsTolerated ==
    [][(pc \in {"mask_documents", "mask_text", "postprocess_pii_items"})
       => (pc' # "error")]_vars


-----------------------------------------------------------------------------
(* Two unrelated runs in one process.  The state of a run is the input and *)
(* the channels of OverallState that the graph keeps for the run, with its *)
(* position in the graph; the process holds the configuration and the      *)
(* globals of utils.py.  The variables hold the state of the run that      *)
(* takes the next step and other holds the state of the run that waits;    *)
(* the event loop passes from one run to the other between any two steps.  *)

\* the names of the state that the process keeps once for all its runs:
\* the globals of utils.py (logger holds no state of a run)
ProcessWide_with_counter == {"llm", "n_prompts"}

ProcessWide == {"llm"}

\* the state of the run that the variables hold
RunState ==
    [files |-> files,
     pc |-> pc,
     sends |-> sends,
     done |-> done,
     responses |-> responses,
     n_prompts |-> n_prompts,
     documents |-> documents,
     document_chunks |-> document_chunks,
     document_ids |-> document_ids,
     partial_pii_items |-> partial_pii_items,
     document_partial_pii_items |-> document_partial_pii_items,
     collected_pii_items |-> collected_pii_items,
     masked_chunks |-> masked_chunks,
     final_pii_items |-> final_pii_items,
     rounds |-> rounds,
     productive |-> productive,
     route |-> route,
     origins |-> origins,
     spared |-> spared]

\* the state of a run with the input fs before its first step
InitialRunState(fs) ==
    [files |-> fs, pc |-> "load_document", sends |-> _map_input(fs), done |-> {},
     responses |-> EmptyDict, n_prompts |-> 0, documents |-> <<>>,
     document_chunks |-> EmptyDict, document_ids |-> <<>>, partial_pii_items |-> <<>>,
     document_partial_pii_items |-> EmptyDict, collected_pii_items |-> EmptyDict,
     masked_chunks |-> <<>>, final_pii_items |-> <<>>, rounds |-> 0, productive |-> 0,
     route |-> "none", origins |-> <<>>, spared |-> {}]

\* what a step of the run that resumes reads under a name: the value the
\* process holds, or the value the run left
Restored(name, held, left) == IF name \in ProcessWide THEN held ELSE left

\* the event loop passes to the other run
Switch ==
    /\ other # NoRun
    /\ run' = 3 - run
    /\ other' = RunState
    /\ files' = Restored("files", files, other.files)
    /\ pc' = Restored("pc", pc, other.pc)
    /\ sends' = Restored("sends", sends, other.sends)
    /\ done' = Restored("done", done, other.done)
    /\ responses' = Restored("responses", responses, other.responses)
    /\ n_prompts' = Restored("n_prompts", n_prompts, other.n_prompts)
    /\ documents' = Restored("documents", documents, other.documents)
    /\ document_chunks' = Restored("document_chunks", document_chunks, other.document_chunks)
    /\ document_ids' = Restored("document_ids", document_ids, other.document_ids)
    /\ partial_pii_items' = Restored("partial_pii_items", partial_pii_items, other.partial_pii_items)
    /\ document_partial_pii_items' = Restored("document_partial_pii_items", document_partial_pii_items, other.document_partial_pii_items)
    /\ collected_pii_items' = Restored("collected_pii_items", collected_pii_items, other.collected_pii_items)
    /\ masked_chunks' = Restored("masked_chunks", masked_chunks, other.masked_chunks)
    /\ final_pii_items' = Restored("final_pii_items", final_pii_items, other.final_pii_items)
    /\ rounds' = Restored("rounds", rounds, other.rounds)
    /\ productive' = Restored("productive", productive, other.productive)
    /\ route' = Restored("route", route, other.route)
    /\ origins' = Restored("origins", origins, other.origins)
    /\ spared' = Restored("spared", spared, other.spared)
    /\ UNCHANGED <<llm, CHUNK_SIZE, CHUNK_OVERLAP, REPROMPTING, MAX_PROMPTS>>

\* the inputs of the two runs: one document of one chunk each
PairFiles == << <<Files[2]>>, <<MalformedFiles[1]>> >>

PairInit ==
    /\ files = InitialRunState(PairFiles[1]).files
    /\ pc = InitialRunState(PairFiles[1]).pc
    /\ sends = InitialRunState(PairFiles[1]).sends
    /\ done = InitialRunState(PairFiles[1]).done
    /\ responses = InitialRunState(PairFiles[1]).responses
    /\ n_prompts = InitialRunState(PairFiles[1]).n_prompts
    /\ documents = InitialRunState(PairFiles[1]).documents
    /\ document_chunks = InitialRunState(PairFiles[1]).document_chunks
    /\ document_ids = InitialRunState(PairFiles[1]).document_ids
    /\ partial_pii_items = InitialRunState(PairFiles[1]).partial_pii_items
    /\ document_partial_pii_items = InitialRunState(PairFiles[1]).document_partial_pii_items
    /\ collected_pii_items = InitialRunState(PairFiles[1]).collected_pii_items
    /\ masked_chunks = InitialRunState(PairFiles[1]).masked_chunks
    /\ final_pii_items = InitialRunState(PairFiles[1]).final_pii_items
    /\ rounds = InitialRunState(PairFiles[1]).rounds
    /\ productive = InitialRunState(PairFiles[1]).productive
    /\ route = InitialRunState(PairFiles[1]).route
    /\ origins = InitialRunState(PairFiles[1]).origins
    /\ spared = InitialRunState(PairFiles[1]).spared
    /\ other = InitialRunState(PairFiles[2])
    /\ run = 1
    /\ llm = "none"
    /\ CHUNK_SIZE = CHUNK_SIZE_DEFAULT
    /\ CHUNK_OVERLAP = CHUNK_OVERLAP_DEFAULT
    /\ REPROMPTING = TRUE
    /\ MAX_PROMPTS = MAX_PROMPTS_DEFAULT

PairNext ==
    \/ Next
    \/ Switch

PairSpec == PairInit /\ [][PairNext]_vars

\* C32: a step of a run leaves the state of the other run as it is and is a
\* step the run takes when it is alone in the process, and a run that
\* resumes finds its round counter, chunk sets, partial and collected
\* results as it left them.
C32_RunsDoNotInterfere ==
    [][IF run' = run
       THEN other' = other /\ Next
       ELSE other' = RunState /\ RunState' = other]_vars

\* the run that takes the next step is in its second round with the counter
\* at 1 while the other run is in its first round with the counter at 0
C32_Witness ==
    /\ other # NoRun
    /\ pc = "identify_pii_items"
    /\ rounds = 2
    /\ n_prompts = 1
    /\ other.pc = "identify_pii_items"
    /\ other.rounds = 1
    /\ other.n_prompts = 0

====
